---- MODULE Spec2Model ----
(***************************************************************************)
(* Model of the font sorter of drawBotProofing                             *)
(* (proofing_helpers/fontSorter.py): the scoring of PostScript names by    *)
(* optical size, width, weight, trailing index and italic, and the sort    *)
(* of a list of names by that score; of sort_fonts, which sorts font files *)
(* by their names; and of the search for font files and UFOs               *)
(* (proofing_helpers/files.py).                                            *)
(*                                                                         *)
(* A Python str is modelled as a sequence of one-character strings, so     *)
(* that the regular expressions, the case folding, the number formatting   *)
(* and the string comparisons of the code are computed, not assumed.  A    *)
(* Python int that may exceed 32 bits (int(style_hash)) is modelled as its *)
(* canonical sequence of decimal digits.                                   *)
(***************************************************************************)
EXTENDS Integers, Sequences, FiniteSets, Bags, TLC

(***************************************************************************)
(* Characters: code points, case folding, comparison of Python values.     *)
(***************************************************************************)
Digits == <<"0", "1", "2", "3", "4", "5", "6", "7", "8", "9">>

Upper ==
    <<"A", "B", "C", "D", "E", "F", "G", "H", "I", "J", "K", "L", "M",
      "N", "O", "P", "Q", "R", "S", "T", "U", "V", "W", "X", "Y", "Z">>

Lower ==
    <<"a", "b", "c", "d", "e", "f", "g", "h", "i", "j", "k", "l", "m",
      "n", "o", "p", "q", "r", "s", "t", "u", "v", "w", "x", "y", "z">>

Range(s) == {s[i] : i \in 1..Len(s)}

DigitChars == Range(Digits)

UpperChars == Range(Upper)

Chars == {"-"} \cup DigitChars \cup UpperChars \cup Range(Lower)

IndexOf(s, x) == CHOOSE i \in 1..Len(s) : s[i] = x

\* the code point of a character (ASCII), which orders Python strings
ord ==
    [c \in Chars |->
        IF c = "-" THEN 45
        ELSE IF c \in DigitChars THEN 47 + IndexOf(Digits, c)
        ELSE IF c \in UpperChars THEN 64 + IndexOf(Upper, c)
        ELSE 96 + IndexOf(Lower, c)]

\* re.IGNORECASE: both sides are compared after case folding
lower ==
    [c \in Chars |->
        IF c \in UpperChars THEN Lower[IndexOf(Upper, c)] ELSE c]

\* a < b for two Python str (lexicographic by code point, a proper prefix
\* is smaller)
RECURSIVE StrLess(_, _)
StrLess(a, b) ==
    IF b = <<>> THEN FALSE
    ELSE IF a = <<>> THEN TRUE
    ELSE IF ord[Head(a)] # ord[Head(b)] THEN ord[Head(a)] < ord[Head(b)]
    ELSE StrLess(Tail(a), Tail(b))

\* a < b for two Python lists of str (lexicographic, elements compared as
\* str)
RECURSIVE ListLess(_, _)
ListLess(a, b) ==
    IF b = <<>> THEN FALSE
    ELSE IF a = <<>> THEN TRUE
    ELSE IF Head(a) # Head(b) THEN StrLess(Head(a), Head(b))
    ELSE ListLess(Tail(a), Tail(b))

(***************************************************************************)
(* The vocabularies.  A slot of opsz_names and of width_names is a list of *)
(* equivalent spellings, a slot of weight_names is one str.                *)
(***************************************************************************)
opsz_names ==
    << << <<"n", "u", "l", "l">> >>,
       << <<"c", "a", "p", "t", "i", "o", "n">>, <<"c", "a", "p", "t">> >>,
       << <<"5", "p", "t">> >>,
       << <<"7", "p", "t">> >>,
       << <<"s", "m", "a", "l", "l", "t", "e", "x", "t">>, <<"s", "m", "t", "x", "t">> >>,
       << <<"t", "e", "x", "t">> >>,
       << <<"n", "o", "r", "m", "a", "l">> >>,
       << <<"s", "u", "b", "h", "e", "a", "d">>, <<"s", "u", "b", "h">> >>,
       << <<"d", "i", "s", "p", "l", "a", "y">>, <<"d", "i", "s", "p">> >>,
       << <<"l", "a", "r", "g", "e">> >>,
       << <<"p", "o", "s", "t", "e", "r">> >> >>

width_names ==
    << << <<"e", "x", "t", "r", "a", "c", "o", "n", "d", "e", "n", "s", "e", "d">>, <<"e", "x", "t", "r", "a", "c", "o", "n", "d">>, <<"x", "c", "o", "n", "d", "e", "n", "s", "e", "d">>, <<"x", "c", "o", "n", "d">> >>,
       << <<"n", "a", "r", "r", "o", "w">> >>,
       << <<"c", "o", "n", "d", "e", "n", "s", "e", "d">>, <<"c", "o", "n", "d">>, <<"c", "n", "d">> >>,
       << <<"s", "e", "m", "i", "c", "o", "n", "d", "e", "n", "s", "e", "d">>, <<"s", "e", "m", "i", "c", "o", "n", "d">>, <<"s", "e", "m", "i", "c", "n", "d">>, <<"s", "e", "m", "i", "c", "n">> >>,
       << <<"n", "o", "r", "m", "a", "l">> >>,
       << <<"s", "e", "m", "i", "e", "x", "t", "e", "n", "d", "e", "d">>, <<"s", "e", "m", "i", "e", "x", "t">> >>,
       << <<"e", "x", "t", "e", "n", "d", "e", "d">> >>,
       << <<"e", "x", "p", "a", "n", "d", "e", "d">> >>,
       << <<"w", "i", "d", "e">> >>,
       << <<"x", "w", "i", "d", "e">> >> >>

weight_names ==
    << <<"h", "a", "i", "r">>,
       <<"u", "l", "t", "r", "a", "l", "i", "g", "h", "t">>,
       <<"t", "h", "i", "n">>,
       <<"e", "x", "t", "r", "a", "l", "i", "g", "h", "t">>,
       <<"l", "i", "g", "h", "t">>,
       <<"s", "e", "m", "i", "l", "i", "g", "h", "t">>,
       <<"b", "o", "o", "k">>,
       <<"r", "e", "g", "u", "l", "a", "r">>,
       <<"m", "e", "d", "i", "u", "m">>,
       <<"s", "e", "m", "i", "b", "o", "l", "d">>,
       <<"b", "o", "l", "d">>,
       <<"e", "x", "t", "r", "a", "b", "o", "l", "d">>,
       <<"h", "e", "a", "v", "y">>,
       <<"b", "l", "a", "c", "k">>,
       <<"u", "l", "t", "r", "a">>,
       <<"f", "a", "t">> >>


normal == <<"n", "o", "r", "m", "a", "l">>

regular == <<"r", "e", "g", "u", "l", "a", "r">>

\* the spellings of the italic attribute that test_outlier looks for
italic_attrs == << <<"I", "t", "a", "l", "i", "c">>, <<"I", "t", "a">>, <<"I", "t">> >>

\* list.index(x): the first position of x, counted from 0
index(attr_list, x) ==
    (CHOOSE i \in 1..Len(attr_list) :
        /\ attr_list[i] = x
        /\ \A j \in 1..(i - 1) : attr_list[j] # x) - 1

DEFAULT_SCORE ==
    << index(opsz_names, <<normal>>),
       index(width_names, <<normal>>),
       index(weight_names, regular) >>

\* the score given to the three axes of a name nothing is known about
OUTLIER_SCORE == 999

\* the amount added to the weight score of an italic
ITALIC_SHIFT == 100

(***************************************************************************)
(* Regular expressions and number conversions.                             *)
(***************************************************************************)
\* re.match(rf'(.+?)?({attr})(.+?)?', ps_name, re.IGNORECASE): the optional
\* lazy groups around the attribute make this a search for the attribute at
\* any position of the name, letter case ignored
re_match_attr(attr, ps_name) ==
    \E i \in 0..(Len(ps_name) - Len(attr)) :
        \A k \in 1..Len(attr) : lower[ps_name[i + k]] = lower[attr[k]]

\* int(s) for a str of digits, as a number
RECURSIVE int(_)
int(s) ==
    IF s = <<>> THEN 0
    ELSE 10 * int(SubSeq(s, 1, Len(s) - 1)) + (IndexOf(Digits, s[Len(s)]) - 1)

\* str(n) for n >= 0
RECURSIVE str(_)
str(n) ==
    IF n < 10 THEN <<Digits[n + 1]>>
    ELSE str(n \div 10) \o <<Digits[(n % 10) + 1]>>

\* faulty variant: f'{n}', the digits without padding
format_d(n, width) == str(n)

\* f'{n:0{width}d}': the decimal digits of n, padded with zeros on the left
\* up to width; a longer number is not cut
RECURSIVE format_0d(_, _)
format_0d(n, width) ==
    LET s == str(n)
    IN  IF Len(s) >= width THEN s
        ELSE <<"0">> \o format_0d(n, width - 1)

\* int(style_hash) of an unbounded Python int: the digits without the
\* leading zeros
RECURSIVE big_int(_)
big_int(s) ==
    IF Len(s) > 1 /\ Head(s) = "0" THEN big_int(Tail(s)) ELSE s

\* a < b for two Python ints given by their digits
IntLess(a, b) ==
    \/ Len(a) < Len(b)
    \/ Len(a) = Len(b) /\ StrLess(a, b)

(***************************************************************************)
(* The score of one name.                                                  *)
(***************************************************************************)
\* sorted(found_names)[-1]: the pairs (len(name), name) are compared by
\* length first and by name next; name is a slot of the vocabulary, a list
\* of spellings (is_list) or a str
PairLess(m, n, is_list) ==
    \/ Len(m) < Len(n)
    \/ /\ Len(m) = Len(n)
       /\ IF is_list THEN ListLess(m, n) ELSE StrLess(m, n)

\* faulty variant: sorted(found_names)[0], the shortest name wins
find_shortest_match(attr_list, match_indices, is_list) ==
    LET found_names == {attr_list[i + 1] : i \in match_indices}
        shortest_name ==
            CHOOSE n \in found_names :
                \A m \in found_names : m = n \/ PairLess(n, m, is_list)
    IN  index(attr_list, shortest_name)

find_longest_match(attr_list, match_indices, is_list) ==
    LET found_names == {attr_list[i + 1] : i \in match_indices}
        longest_name ==
            CHOOSE n \in found_names :
                \A m \in found_names : m = n \/ PairLess(m, n, is_list)
    IN  index(attr_list, longest_name)

\* is_list stands for isinstance(variant, list), which is the same for all
\* slots of one vocabulary
get_attr_score(ps_name, attr_list, fallback, is_list) ==
    LET name_matches ==
            {i - 1 : i \in
                {j \in 1..Len(attr_list) :
                    IF is_list
                    THEN \E s \in 1..Len(attr_list[j]) :
                            re_match_attr(attr_list[j][s], ps_name)
                    ELSE re_match_attr(attr_list[j], ps_name)}}
    IN  IF name_matches # {}
        THEN find_longest_match(attr_list, name_matches, is_list)
        ELSE index(attr_list, fallback)

\* re.match(r'.*(it)(alic)?.*', ps_name, re.IGNORECASE): the group (alic) is
\* optional, so the pattern matches whenever the letters it occur
get_italic_score(ps_name) ==
    IF re_match_attr(<<"i", "t">>, ps_name) THEN 1 ELSE 0

\* faulty variant: r'.+(\d+?)$', a greedy prefix leaves the last digit only
get_last_digit(ps_name) ==
    IF Len(ps_name) >= 2 /\ ps_name[Len(ps_name)] \in DigitChars
    THEN int(<<ps_name[Len(ps_name)]>>)
    ELSE 0

\* re.match(r'.+?(\d+?)$', ps_name): the lazy prefix takes at least one
\* character and stops at the first position after which only digits follow
get_index_score(ps_name) ==
    LET prefixes ==
            {k \in 1..(Len(ps_name) - 1) :
                \A i \in (k + 1)..Len(ps_name) : ps_name[i] \in DigitChars}
    IN  IF prefixes = {} THEN 0
        ELSE LET k == CHOOSE p \in prefixes : \A q \in prefixes : p <= q
             IN  int(SubSeq(ps_name, k + 1, Len(ps_name)))

RECURSIVE chain(_)
chain(lists) ==
    IF lists = <<>> THEN <<>> ELSE Head(lists) \o chain(Tail(lists))

\* faulty variant: the italic attributes are not among the attributes
test_outlier_without_italic(ps_name) ==
    LET all_attrs ==
            chain(opsz_names) \o chain(width_names) \o weight_names
    IN  ~ \E i \in 1..Len(all_attrs) : re_match_attr(all_attrs[i], ps_name)

test_outlier(ps_name) ==
    LET all_attrs ==
            chain(opsz_names) \o chain(width_names) \o weight_names
                \o italic_attrs
    IN  ~ \E i \in 1..Len(all_attrs) : re_match_attr(all_attrs[i], ps_name)

\* faulty variant: the key without the italic score
make_hash_without_italic(opsz_score, width_score, weight_score, index_score, it_score) ==
    format_0d(opsz_score, 3) \o format_0d(width_score, 3)
        \o format_0d(weight_score, 3) \o format_0d(index_score, 2)

make_hash(opsz_score, width_score, weight_score, index_score, it_score) ==
    format_0d(opsz_score, 3) \o format_0d(width_score, 3)
        \o format_0d(weight_score, 3) \o format_0d(index_score, 2)
        \o str(it_score)

\* faulty variant: the weight score of an italic is left as it is
leave_italics(weight_score, it_score, alternate_italics) == weight_score

\* lines 180-183: italics are moved after the romans unless they alternate
move_italics(weight_score, it_score, alternate_italics) ==
    IF ~alternate_italics /\ it_score = 1
    THEN weight_score + ITALIC_SHIFT
    ELSE weight_score

\* the five scores that get_score hands to make_hash
get_score_tuple(ps_name, alternate_italics) ==
    LET opsz_score == get_attr_score(ps_name, opsz_names, <<normal>>, TRUE)
        width_score == get_attr_score(ps_name, width_names, <<normal>>, TRUE)
        weight_score ==
            move_italics(
                get_attr_score(ps_name, weight_names, regular, FALSE),
                get_italic_score(ps_name), alternate_italics)
        index_score == get_index_score(ps_name)
        it_score == get_italic_score(ps_name)
    IN  IF /\ <<opsz_score, width_score, weight_score>> = DEFAULT_SCORE
           /\ test_outlier(ps_name)
        THEN <<OUTLIER_SCORE, OUTLIER_SCORE, OUTLIER_SCORE,
               index_score, it_score>>
        ELSE <<opsz_score, width_score, weight_score, index_score, it_score>>

get_score(ps_name, alternate_italics) ==
    LET s == get_score_tuple(ps_name, alternate_italics)
    IN  make_hash(s[1], s[2], s[3], s[4], s[5])

(***************************************************************************)
(* The names the model sorts.                                              *)
(***************************************************************************)
Font_Regular == <<"F", "o", "n", "t", "-", "R", "e", "g", "u", "l", "a", "r">>

Font_Regular1 == <<"F", "o", "n", "t", "-", "R", "e", "g", "u", "l", "a", "r", "1">>

Font_Regular2 == <<"F", "o", "n", "t", "-", "R", "e", "g", "u", "l", "a", "r", "2">>

Font_Regular100 == <<"F", "o", "n", "t", "-", "R", "e", "g", "u", "l", "a", "r", "1", "0", "0">>

Font_Regular10000 == <<"F", "o", "n", "t", "-", "R", "e", "g", "u", "l", "a", "r", "1", "0", "0", "0", "0">>

Font_Bold == <<"F", "o", "n", "t", "-", "B", "o", "l", "d">>

Font_Italic == <<"F", "o", "n", "t", "-", "I", "t", "a", "l", "i", "c">>

Font_CaptionItalic == <<"F", "o", "n", "t", "-", "C", "a", "p", "t", "i", "o", "n", "I", "t", "a", "l", "i", "c">>

Font_Display == <<"F", "o", "n", "t", "-", "D", "i", "s", "p", "l", "a", "y">>

Acumin_Regular == <<"A", "c", "u", "m", "i", "n", "-", "R", "e", "g", "u", "l", "a", "r">>

Acumin_Whatever == <<"A", "c", "u", "m", "i", "n", "-", "W", "h", "a", "t", "e", "v", "e", "r">>

NullXcondUltralight == <<"N", "u", "l", "l", "X", "c", "o", "n", "d", "U", "l", "t", "r", "a", "l", "i", "g", "h", "t">>

NullXcondUltralightIt == <<"N", "u", "l", "l", "X", "c", "o", "n", "d", "U", "l", "t", "r", "a", "l", "i", "g", "h", "t", "I", "t">>

NullXcondHairIt100 == <<"N", "u", "l", "l", "X", "c", "o", "n", "d", "H", "a", "i", "r", "I", "t", "1", "0", "0">>

PsNames ==
    { Font_Regular,
      Font_Regular1,
      Font_Regular2,
      Font_Regular100,
      Font_Regular10000,
      Font_Bold,
      Font_Italic,
      Font_CaptionItalic,
      Font_Display,
      Acumin_Regular,
      Acumin_Whatever,
      NullXcondUltralight,
      NullXcondUltralightIt,
      NullXcondHairIt100 }

\* str.capitalize() of a vocabulary name, as style names are written
Capitalized(w) == <<Upper[IndexOf(Lower, Head(w))]>> \o Tail(w)

MyFont == <<"M", "y", "F", "o", "n", "t", "-">>

AFont == <<"A", "-">>

MyFont_BoldItalic ==
    MyFont \o <<"B", "o", "l", "d", "I", "t", "a", "l", "i", "c">>

\* one family in every weight, a second family in some weights
WeightPsNames ==
    {MyFont \o Capitalized(weight_names[i]) : i \in 1..Len(weight_names)}
        \cup {AFont \o Capitalized(weight_names[i]) : i \in {3, 5, 11}}
        \cup {MyFont_BoldItalic}

Empty == <<>>

Digits123 == <<"1", "2", "3">>

Digit5 == <<"5">>

Font_Regular007 == <<"F", "o", "n", "t", "-", "R", "e", "g", "u", "l", "a", "r", "0", "0", "7">>

A1B22 == <<"A", "1", "B", "2", "2">>

Font_SemiBold == <<"F", "o", "n", "t", "-", "S", "e", "m", "i", "B", "o", "l", "d">>

Font_PosterCapt == <<"F", "o", "n", "t", "-", "P", "o", "s", "t", "e", "r", "C", "a", "p", "t">>

Font_Poster == <<"F", "o", "n", "t", "-", "P", "o", "s", "t", "e", "r">>

Whitney_Bold == <<"W", "h", "i", "t", "n", "e", "y", "-", "B", "o", "l", "d">>

Font_BoldIt == <<"F", "o", "n", "t", "-", "B", "o", "l", "d", "I", "t">>

Font_It == <<"F", "o", "n", "t", "-", "I", "t">>

Font_Normal == <<"F", "o", "n", "t", "-", "N", "o", "r", "m", "a", "l">>

\* a prefix without any token
FPrefix == <<"F", "-">>

ExtraWide == <<"E", "x", "t", "r", "a", "W", "i", "d", "e">>

\* the width names as style names are written, narrowest first
WidthStyleNames ==
    << <<"E", "x", "t", "r", "a", "C", "o", "n", "d", "e", "n", "s", "e", "d">>,
       <<"N", "a", "r", "r", "o", "w">>,
       <<"C", "o", "n", "d", "e", "n", "s", "e", "d">>,
       <<"S", "e", "m", "i", "C", "o", "n", "d", "e", "n", "s", "e", "d">>,
       <<"N", "o", "r", "m", "a", "l">>,
       <<"S", "e", "m", "i", "E", "x", "t", "e", "n", "d", "e", "d">>,
       <<"E", "x", "t", "e", "n", "d", "e", "d">>,
       <<"E", "x", "p", "a", "n", "d", "e", "d">>,
       <<"W", "i", "d", "e">>,
       <<"X", "W", "i", "d", "e">> >>

WidthPsNames ==
    {FPrefix \o WidthStyleNames[i] : i \in 1..Len(WidthStyleNames)}
        \cup {FPrefix \o ExtraWide}

\* names for the score of one name: without a token, made of digits, with a
\* trailing index, with tokens of several slots, with the letters of a token
\* inside a word
ScorePsNames ==
    { Empty, Digits123, Digit5, Font_Regular007, A1B22,
      Font_SemiBold, Font_PosterCapt, Font_Poster,
      Whitney_Bold, Font_BoldIt, Font_It, Font_Normal,
      Font_Regular, Font_Regular100, Font_Bold, Font_Italic, Acumin_Whatever }
        \cup WidthPsNames

AllPsNames == PsNames \cup WeightPsNames \cup ScorePsNames

MaxLen == 3

MaxLenWeights == 2

MaxLenScores == 2

SeqsUpTo(S, n) == UNION {[1..k -> S] : k \in 0..n}

(***************************************************************************)
(* sort_ps_names.                                                          *)
(***************************************************************************)
\* faulty variant: the dict outlives the call (a dict shared by all calls)
kept_matches(previous) == previous

\* line 203, matches = {}: every call starts from a new dict, whatever the
\* dict of the call before it held
new_matches(previous) == [k \in {} |-> <<>>]

\* faulty variant: matches[key] = [ps_name], the names filed before are lost
setdefault_assign(d, key, ps_name) ==
    [k \in (DOMAIN d) \cup {key} |->
        IF k = key THEN <<ps_name>> ELSE d[k]]

\* matches.setdefault(key, []).append(ps_name)
setdefault_append(d, key, ps_name) ==
    [k \in (DOMAIN d) \cup {key} |->
        IF k = key
        THEN (IF key \in DOMAIN d THEN d[key] ELSE <<>>) \o <<ps_name>>
        ELSE d[k]]

\* get_score tabulated over the names of the model, so that the score of a
\* name is computed once
tuple_table ==
    { [ps_name |-> n, alternate_italics |-> a,
       score |-> get_score_tuple(n, a)] :
        n \in AllPsNames, a \in BOOLEAN }

\* style_hash is get_score(ps_name, alternate_italics), made of the tuple
\* that is tabulated already
score_table ==
    { [ps_name |-> t.ps_name, alternate_italics |-> t.alternate_italics,
       score |-> t.score,
       style_hash |-> make_hash(t.score[1], t.score[2], t.score[3],
                                t.score[4], t.score[5])] :
        t \in tuple_table }

scored(ps_name, alternate_italics) ==
    CHOOSE r \in score_table :
        r.ps_name = ps_name /\ r.alternate_italics = alternate_italics

\* lines 204-207
RECURSIVE score_loop(_, _, _)
score_loop(ps_name_list, alternate_italics, d) ==
    IF ps_name_list = <<>> THEN d
    ELSE LET ps_name == Head(ps_name_list)
             style_hash == scored(ps_name, alternate_italics).style_hash
         IN  score_loop(Tail(ps_name_list), alternate_italics,
                        setdefault_append(d, big_int(style_hash), ps_name))

RECURSIVE insort(_, _)
insort(sorted_list, x) ==
    IF sorted_list = <<>> THEN <<x>>
    ELSE IF StrLess(x, Head(sorted_list)) THEN <<x>> \o sorted_list
    ELSE <<Head(sorted_list)>> \o insort(Tail(sorted_list), x)

\* faulty variant: font_list.reverse()
list_reversed(font_list) ==
    [i \in 1..Len(font_list) |-> font_list[Len(font_list) + 1 - i]]

\* font_list.sort(): ascending order of the names as Python str
RECURSIVE list_sort(_)
list_sort(font_list) ==
    IF font_list = <<>> THEN <<>>
    ELSE insort(list_sort(SubSeq(font_list, 1, Len(font_list) - 1)),
                font_list[Len(font_list)])

\* [f for _, f in sorted(matches.items())]: the lists in ascending order of
\* their keys (the keys of a dict are distinct, so only keys are compared)
RECURSIVE sorted_items(_, _)
sorted_items(d, keys) ==
    IF keys = {} THEN <<>>
    ELSE LET least == CHOOSE k \in keys :
                        \A j \in keys : j = k \/ IntLess(k, j)
         IN  <<d[least]>> \o sorted_items(d, keys \ {least})

\* faulty variant: without font_list.sort()
fill_matches_unsorted(ps_name_list, alternate_italics, previous) ==
    score_loop(ps_name_list, alternate_italics, new_matches(previous))

\* lines 203-212, the dict as sort_ps_names leaves it: filled by the loop,
\* every list sorted in place
fill_matches(ps_name_list, alternate_italics, previous) ==
    LET d == score_loop(ps_name_list, alternate_italics,
                        new_matches(previous))
    IN  [k \in DOMAIN d |-> list_sort(d[k])]

\* faulty variant: sorted(matches.items(), reverse=True)
chain_reversed(d) ==
    LET groups == sorted_items(d, DOMAIN d)
    IN  chain([i \in 1..Len(groups) |-> groups[Len(groups) + 1 - i]])

\* lines 215-216
chain_sorted(d) == chain(sorted_items(d, DOMAIN d))

sort_ps_names(ps_name_list, alternate_italics, previous) ==
    chain_sorted(fill_matches(ps_name_list, alternate_italics, previous))

(***************************************************************************)
(* The exceptions of the scoring.  "none" stands for a normal return.      *)
(***************************************************************************)
\* lines 91-107: the indices of the slots of which a spelling occurs
name_matches(ps_name, attr_list, is_list) ==
    UNION { IF IF is_list
               THEN \E s \in 1..Len(attr_list[j]) :
                       re_match_attr(attr_list[j][s], ps_name)
               ELSE re_match_attr(attr_list[j], ps_name)
            THEN {j - 1} ELSE {} : j \in 1..Len(attr_list) }

\* sorted(found_names)[-1] raises IndexError for an empty list of matches
find_longest_match_raises(attr_list, match_indices) ==
    IF match_indices = {} THEN "IndexError" ELSE "none"

\* faulty variant: find_longest_match is called without the test of
\* name_matches
unguarded_get_attr_score_raises(ps_name, attr_list, fallback, is_list) ==
    find_longest_match_raises(
        attr_list, name_matches(ps_name, attr_list, is_list))

\* lines 108-112: find_longest_match is called for a non-empty list of
\* matches only; attr_list.index(fallback) raises ValueError for a fallback
\* that is not a slot
get_attr_score_raises(ps_name, attr_list, fallback, is_list) ==
    IF name_matches(ps_name, attr_list, is_list) # {}
    THEN find_longest_match_raises(
            attr_list, name_matches(ps_name, attr_list, is_list))
    ELSE IF fallback \in Range(attr_list) THEN "none" ELSE "ValueError"

\* the first exception of a sequence of steps
RECURSIVE first_raised(_)
first_raised(steps) ==
    IF steps = <<>> THEN "none"
    ELSE IF Head(steps) # "none" THEN Head(steps)
    ELSE first_raised(Tail(steps))

\* get_score: the three calls of get_attr_score; the other helpers and
\* make_hash do not raise
get_score_raises(ps_name, alternate_italics) ==
    first_raised(
        << get_attr_score_raises(ps_name, opsz_names, <<normal>>, TRUE),
           get_attr_score_raises(ps_name, width_names, <<normal>>, TRUE),
           get_attr_score_raises(ps_name, weight_names, regular, FALSE) >>)

\* what the helpers return to get_score for one name, and the key that
\* get_score returns, tabulated over the names of the model
helper_table ==
    { [ps_name |-> n, alternate_italics |-> a,
       raises |-> get_score_raises(n, a),
       opsz_score |-> get_attr_score(n, opsz_names, <<normal>>, TRUE),
       width_score |-> get_attr_score(n, width_names, <<normal>>, TRUE),
       weight_score |-> get_attr_score(n, weight_names, regular, FALSE),
       index_score |-> get_index_score(n),
       it_score |-> get_italic_score(n),
       outlier |-> test_outlier(n),
       style_hash |-> scored(n, a).style_hash] :
        n \in AllPsNames, a \in BOOLEAN }

helpers(ps_name, alternate_italics) ==
    CHOOSE r \in helper_table :
        r.ps_name = ps_name /\ r.alternate_italics = alternate_italics

\* int(style_hash) raises ValueError for a str that is not made of digits
int_raises(s) ==
    IF s # <<>> /\ Range(s) \subseteq DigitChars THEN "none" ELSE "ValueError"

\* sort_ps_names: get_score and int(style_hash) for every name (lines
\* 205-206); the comparisons of sorted(matches.items()) and of
\* font_list.sort() are among int keys and among str and do not raise
sort_ps_names_raises(ps_name_list, alternate_italics) ==
    first_raised(
        [i \in 1..Len(ps_name_list) |->
            LET r == helpers(ps_name_list[i], alternate_italics)
            IN  IF r.raises # "none" THEN r.raises
                ELSE int_raises(r.style_hash)])

(***************************************************************************)
(* get_font_paths and get_ufo_paths (proofing_helpers/files.py, in the     *)
(* package drawbot_proofing and in the older copy beside the scripts).     *)
(* A path is its last component, whether it is a directory, and what the   *)
(* walk of rglob finds below it, in the order of the walk; a designspace   *)
(* file has the paths of its sources.                                      *)
(***************************************************************************)
dot == "."

\* str.lower() of a name with characters that are not letters
str_lower(s) ==
    [i \in 1..Len(s) |-> IF s[i] \in UpperChars THEN lower[s[i]] ELSE s[i]]

\* Path.suffix: the last component from its last dot on, empty when there
\* is no dot after the first character or the name ends with the dot
suffix(name) ==
    LET dots == {i \in 2..Len(name) : name[i] = dot}
    IN  IF dots = {} THEN <<>>
        ELSE LET last == CHOOSE i \in dots : \A j \in dots : j <= i
             IN  IF last = Len(name) THEN <<>>
                 ELSE SubSeq(name, last, Len(name))

\* Path.rglob('*' + ending): the paths below the directory whose name ends
\* with the ending, letter case respected
rglob(path, ending) ==
    LET matches_pattern(name) ==
            /\ Len(ending) <= Len(name)
            /\ SubSeq(name, Len(name) - Len(ending) + 1, Len(name)) = ending
    IN  SelectSeq(path.entries, matches_pattern)

dot_otf == <<dot, "o", "t", "f">>

dot_ttf == <<dot, "t", "t", "f">>

dot_ufo == <<dot, "u", "f", "o">>

dot_OTF == <<dot, "O", "T", "F">>

dot_TTF == <<dot, "T", "T", "F">>

dot_UFO == <<dot, "U", "F", "O">>

dot_designspace ==
    <<dot, "d", "e", "s", "i", "g", "n", "s", "p", "a", "c", "e">>

\* src/drawbot_proofing/proofing_helpers/files.py
get_font_paths(input_path) ==
    LET otf_paths ==
            IF input_path.is_dir
            THEN rglob(input_path, dot_otf) \o rglob(input_path, dot_OTF)
            ELSE <<>>
        ttf_paths ==
            IF input_path.is_dir
            THEN rglob(input_path, dot_ttf) \o rglob(input_path, dot_TTF)
            ELSE <<>>
    IN  IF /\ ~input_path.is_dir
           /\ str_lower(suffix(input_path.name)) \in {dot_otf, dot_ttf}
        THEN <<input_path.name>>
        ELSE IF otf_paths # <<>> THEN otf_paths ELSE ttf_paths

\* src/proofing_helpers/files.py
older_get_font_paths(input_path) ==
    LET otf_paths ==
            IF input_path.is_dir THEN rglob(input_path, dot_otf) ELSE <<>>
        ttf_paths ==
            IF input_path.is_dir THEN rglob(input_path, dot_ttf) ELSE <<>>
    IN  IF /\ ~input_path.is_dir
           /\ suffix(input_path.name) \in {dot_otf, dot_ttf}
        THEN <<input_path.name>>
        ELSE IF otf_paths # <<>> THEN otf_paths ELSE ttf_paths

\* src/drawbot_proofing/proofing_helpers/files.py; the argument filter is
\* not used in the body of the function
get_ufo_paths(input_path, filter) ==
    IF input_path.is_dir
    THEN IF str_lower(suffix(input_path.name)) = dot_ufo
         THEN <<input_path.name>>
         ELSE rglob(input_path, dot_ufo) \o rglob(input_path, dot_UFO)
    ELSE IF str_lower(suffix(input_path.name)) = dot_designspace
         THEN input_path.sources
         ELSE <<>>

\* src/proofing_helpers/files.py; the argument filter is not used either
older_get_ufo_paths(input_path, filter) ==
    IF input_path.is_dir
    THEN IF suffix(input_path.name) = dot_ufo
         THEN <<input_path.name>>
         ELSE rglob(input_path, dot_ufo)
    ELSE <<>>

a_otf == <<"a">> \o dot_otf

b_OTF == <<"b">> \o dot_OTF

c_ttf == <<"c">> \o dot_ttf

d_TTF == <<"d">> \o dot_TTF

font_ufo == <<"f", "o", "n", "t">> \o dot_ufo

Master_ufo == <<"M", "a", "s", "t", "e", "r">> \o dot_ufo

notes_txt == <<"n", "o", "t", "e", "s", dot, "t", "x", "t">>

family_designspace == <<"f", "a", "m", "i", "l", "y">> \o dot_designspace

fonts_dir == <<"f", "o", "n", "t", "s">>

\* what a directory of the model may hold
EntryNames == {a_otf, b_OTF, c_ttf, d_TTF, font_ufo, Master_ufo, notes_txt}

MaxEntries == 2

\* the sequences over S of length up to n without repetition
DistinctSeqsUpTo(S, n) ==
    UNION { IF \A i, j \in 1..Len(s) : i # j => s[i] # s[j]
            THEN {s} ELSE {} : s \in SeqsUpTo(S, n) }

\* the paths the model passes: a directory with some entries, a single
\* file, a single UFO (a directory), a designspace file with two sources
InputPaths ==
    { [name |-> fonts_dir, is_dir |-> TRUE, entries |-> e, sources |-> <<>>] :
        e \in DistinctSeqsUpTo(EntryNames, MaxEntries) }
    \cup
    { [name |-> n, is_dir |-> FALSE, entries |-> <<>>, sources |-> <<>>] :
        n \in {a_otf, b_OTF, c_ttf, d_TTF, notes_txt} }
    \cup
    { [name |-> n, is_dir |-> TRUE, entries |-> <<>>, sources |-> <<>>] :
        n \in {font_ufo, Master_ufo} }
    \cup
    { [name |-> family_designspace, is_dir |-> FALSE, entries |-> <<>>,
       sources |-> <<Master_ufo, font_ufo>>] }

no_path == [name |-> <<>>, is_dir |-> FALSE, entries |-> <<>>, sources |-> <<>>]

(***************************************************************************)
(* get_ps_name (proofing_helpers/names.py).  A value that may be None is   *)
(* a sequence of no or of one element.  An input file is its name, the     *)
(* entries of its fontinfo.plist (a UFO) and its name table with the       *)
(* record of name ID 6 (a font file).                                      *)
(***************************************************************************)
None == <<>>

Some(x) == <<x>>

space == " "

\* str.replace(' ', '')
remove_spaces(s) ==
    LET not_space(c) == c # space
    IN  SelectSeq(s, not_space)

Family_Name == <<"F", "a", "m", "i", "l", "y", space, "N", "a", "m", "e">>

Style_Name == <<"S", "t", "y", "l", "e", space, "N", "a", "m", "e">>

\* dict.get(key, default)
dict_get(option, default) == IF option = None THEN default ELSE option[1]

\* faulty variant: the spaces of the family and style names are kept
get_ps_name_with_spaces(input_file) ==
    IF suffix(input_file.name) = dot_ufo
    THEN IF dict_get(input_file.fontinfo.postscriptFontName, <<>>) # <<>>
         THEN input_file.fontinfo.postscriptFontName[1]
         ELSE dict_get(input_file.fontinfo.familyName, Family_Name)
                \o <<"-">>
                \o dict_get(input_file.fontinfo.styleName, Style_Name)
    ELSE dict_get(input_file.name_table[1], <<>>)

\* lines 17-39; the name table is there (see get_ps_name_raises)
get_ps_name(input_file) ==
    IF suffix(input_file.name) = dot_ufo
    THEN IF dict_get(input_file.fontinfo.postscriptFontName, <<>>) # <<>>
         THEN input_file.fontinfo.postscriptFontName[1]
         ELSE remove_spaces(
                dict_get(input_file.fontinfo.familyName, Family_Name))
                \o <<"-">>
                \o remove_spaces(
                        dict_get(input_file.fontinfo.styleName, Style_Name))
    ELSE dict_get(input_file.name_table[1], <<>>)

\* line 35: ttf.get('name') is None for a font without name table, and
\* None.getDebugName raises AttributeError
get_ps_name_raises(input_file) ==
    IF suffix(input_file.name) # dot_ufo /\ input_file.name_table = None
    THEN "AttributeError"
    ELSE "none"

no_fontinfo ==
    [postscriptFontName |-> None, familyName |-> None, styleName |-> None]

\* a font file with a name table, with or without the record of name ID 6
FontFile(name, name_6) ==
    [name |-> name, fontinfo |-> no_fontinfo, name_table |-> Some(name_6)]

(***************************************************************************)
(* sort_fonts.                                                             *)
(***************************************************************************)
\* the keys of psname_dict in the order of their insertion: the names of
\* the files in the order of their first occurrence
RECURSIVE dict_keys(_, _)
dict_keys(font_files, seen) ==
    IF font_files = <<>> THEN <<>>
    ELSE IF get_ps_name(Head(font_files)) \in seen
         THEN dict_keys(Tail(font_files), seen)
         ELSE <<get_ps_name(Head(font_files))>>
                \o dict_keys(Tail(font_files),
                             seen \cup {get_ps_name(Head(font_files))})

\* faulty variant: psname_dict[psname] = [font_file], the last file of a
\* name replaces the others
make_psname_dict_assign(font_files) ==
    [n \in {get_ps_name(font_files[i]) : i \in 1..Len(font_files)} |->
        LET last == CHOOSE i \in 1..Len(font_files) :
                        /\ get_ps_name(font_files[i]) = n
                        /\ \A j \in (i + 1)..Len(font_files) :
                                get_ps_name(font_files[j]) # n
        IN  <<font_files[last]>>]

\* lines 80-84: psname_dict.setdefault(psname, []).append(font_file) for
\* every file leaves under every name its files in the order of the list
make_psname_dict(font_files) ==
    [n \in {get_ps_name(font_files[i]) : i \in 1..Len(font_files)} |->
        LET has_name(font_file) == get_ps_name(font_file) = n
        IN  SelectSeq(font_files, has_name)]

\* faulty variant: for ps_name in reversed(sorted_names)
extend_files_reversed(psname_dict, names) ==
    chain([i \in 1..Len(names) |-> psname_dict[names[Len(names) + 1 - i]]])

\* lines 229-230
RECURSIVE extend_files(_, _)
extend_files(psname_dict, names) ==
    IF names = <<>> THEN <<>>
    ELSE psname_dict[Head(names)] \o extend_files(psname_dict, Tail(names))

sort_fonts(font_files, alternate_italics) ==
    IF Len(font_files) <= 1 THEN font_files
    ELSE LET psname_dict == make_psname_dict(font_files)
             names ==
                sort_ps_names(dict_keys(font_files, {}), alternate_italics,
                              [k \in {} |-> <<>>])
         IN  extend_files(psname_dict, names)

e_otf == <<"e">> \o dot_otf

file_1 == FontFile(a_otf, Some(Font_Bold))

file_2 == FontFile(c_ttf, Some(Font_Bold))

file_3 == FontFile(b_OTF, Some(Font_Regular))

file_4 == FontFile(d_TTF, Some(Font_Italic))

file_5 == FontFile(e_otf, None)

f_ttf == <<"f">> \o dot_ttf

file_6 == FontFile(f_ttf, Some(Acumin_Regular))

\* the font files of the model: two files share a name, one has no name,
\* two have names with one score
FontFiles == {file_1, file_2, file_3, file_4, file_5, file_6}

MaxFiles == 3

\* words_by_length[0][1]: the first of the sorted pairs of length and name
shortest_word(list_of_strings) ==
    CHOOSE w \in Range(list_of_strings) :
        \A v \in Range(list_of_strings) :
            \/ Len(w) < Len(v)
            \/ Len(w) = Len(v) /\ ~StrLess(v, w)

\* the loop of get_overlap_index from i on; a loop that ends without a
\* return leaves the function with None
RECURSIVE overlap_from(_, _, _)
overlap_from(list_of_strings, shortest, i) ==
    IF i >= Len(shortest)
    THEN None
    ELSE IF Cardinality({list_of_strings[k][i + 1] :
                            k \in 1..Len(list_of_strings)}) > 1
         THEN Some(i)
         ELSE IF i = Len(shortest) - 1
              THEN Some(Len(shortest))
              ELSE overlap_from(list_of_strings, shortest, i + 1)

get_overlap_index(list_of_strings) ==
    IF list_of_strings = <<>>
    THEN Some(0)
    ELSE overlap_from(list_of_strings, shortest_word(list_of_strings), 0)

\* str.strip('-')
RECURSIVE strip_dashes(_)
strip_dashes(s) ==
    IF s = <<>> THEN s
    ELSE IF Head(s) = "-" THEN strip_dashes(Tail(s))
    ELSE IF s[Len(s)] = "-" THEN strip_dashes(SubSeq(s, 1, Len(s) - 1))
         ELSE s

\* a slice up to None is the whole str
get_name_overlap(list_of_strings) ==
    LET overlap_index == get_overlap_index(list_of_strings)
    IN  strip_dashes(IF overlap_index = None
                     THEN list_of_strings[1]
                     ELSE SubSeq(list_of_strings[1], 1, overlap_index[1]))

\* list_of_strings[0] of an empty list
get_name_overlap_raises(list_of_strings) ==
    IF list_of_strings = <<>> THEN "IndexError" ELSE "none"

MaxNameLen == 2

MaxNames == 2

\* the names of the lists of get_name_overlap, the empty name included
OverlapNames == SeqsUpTo({"A", "B", "-"}, MaxNameLen)

(***************************************************************************)
(* textProof.py: the content of a text proof.  A paragraph is a str, the   *)
(* charset a str that may repeat a character, and a set of characters is   *)
(* told from a str by its kind, because len() counts the repetitions of a  *)
(* str.                                                                    *)
(***************************************************************************)
colon == ":"

str_upper(s) ==
    [i \in 1..Len(s) |->
        IF s[i] \in Range(Lower) THEN Upper[IndexOf(Lower, s[i])] ELSE s[i]]

\* (?<!\d|[A-Z])[\.:] matches at position i of the paragraph
is_delimiter(paragraph, i) ==
    /\ paragraph[i] \in {dot, colon}
    /\ i = 1 \/ paragraph[i - 1] \notin DigitChars \cup UpperChars

\* re.split with a capturing group: the pieces between the matches and
\* the matched delimiters, empty pieces included
RECURSIVE re_split_from(_, _, _)
re_split_from(paragraph, begin, i) ==
    IF i > Len(paragraph)
    THEN <<SubSeq(paragraph, begin, Len(paragraph))>>
    ELSE IF is_delimiter(paragraph, i)
         THEN <<SubSeq(paragraph, begin, i - 1), <<paragraph[i]>>>>
                \o re_split_from(paragraph, i + 1, i + 1)
         ELSE re_split_from(paragraph, begin, i + 1)

re_split(paragraph) == re_split_from(paragraph, 1, 1)

chunk_length == 5

RECURSIVE merge_chunks_from(_, _, _)
merge_chunks_from(chunks, i, output) ==
    IF i > Len(chunks)
    THEN output
    ELSE merge_chunks_from(chunks, i + 1,
            IF Len(chunks[i]) < chunk_length /\ Len(output) > 0
            THEN [output EXCEPT ![Len(output)] = @ \o chunks[i]]
            ELSE Append(output, chunks[i]))

merge_chunks(chunks) == merge_chunks_from(chunks, 1, <<>>)

\* str.strip() of a text whose only whitespace is the space
RECURSIVE strip(_)
strip(text) ==
    IF text = <<>> THEN text
    ELSE IF Head(text) = space THEN strip(Tail(text))
    ELSE IF text[Len(text)] = space
         THEN strip(SubSeq(text, 1, Len(text) - 1))
         ELSE text

\* the text of a TextContainer; its italic and paragraph flags are drawn
\* at random and read by the drawing code only
TextContainer(text) == [text |-> strip(text)]

RECURSIVE total_len(_)
total_len(chunks) ==
    IF chunks = <<>> THEN 0 ELSE Len(Head(chunks)) + total_len(Tail(chunks))

\* the loop of format_content from paragraph i on
RECURSIVE format_content_from(_, _, _, _, _, _)
format_content_from(content_list, len_limit, capitalize, i, total_length, formatted) ==
    IF i > Len(content_list)
    THEN formatted
    ELSE LET paragraph == IF capitalize THEN str_upper(content_list[i])
                          ELSE content_list[i]
             chunks == merge_chunks(re_split(paragraph))
             length == total_length + total_len(chunks)
             content == formatted
                          \o [k \in 1..Len(chunks) |-> TextContainer(chunks[k])]
         IN  IF len_limit # None /\ length >= len_limit[1]
             THEN content
             ELSE format_content_from(content_list, len_limit, capitalize,
                                      i + 1, length, content)

format_content(content_list, len_limit, capitalize) ==
    format_content_from(content_list, len_limit, capitalize, 1, 0, <<>>)

\* a bool where a number is expected: True is 1 and False is 0
bool_int(b) == IF b THEN 1 ELSE 0

\* the charset as passed, and what consume_charset returns
a_str(s) == [kind |-> "str", value |-> s]

a_set(s) == [kind |-> "set", value |-> s]

len(charset) ==
    IF charset.kind = "str" THEN Len(charset.value)
    ELSE Cardinality(charset.value)

set(charset) ==
    IF charset.kind = "str" THEN Range(charset.value) ELSE charset.value

\* set(''.join(content_list))
joined_set(content_list) ==
    UNION {Range(content_list[i]) : i \in 1..Len(content_list)}

acceptable_omissions(content_list, charset) ==
    Cardinality(Range(charset) \ joined_set(content_list))

\* found_paragraphs of consume_charset, as positions of content_list
found_paragraphs(content_list, char) ==
    {i \in 1..Len(content_list) : char \in Range(content_list[i])}

p_ab == <<"a", "b">>

p_sentence == <<"a", "b", "c", "d", "e", dot, space, "f">>

\* split('\n') of a text leaves empty paragraphs
Paragraphs == {<<>>, p_ab, p_sentence}

\* the characters of the charsets; x is in no paragraph
CharsetChars == {"a", "c", "f", "x"}

MaxParagraphs == 2

MaxCharset == 2

\* content_list, charset, len_limit, capitalize and full of the call of
\* make_formatted_content; char_filter is None
TextArgs ==
    { [content_list |-> l, charset |-> s, len_limit |-> n, capitalize |-> c,
       full |-> f] :
        l \in SeqsUpTo(Paragraphs, MaxParagraphs),
        s \in SeqsUpTo(CharsetChars, MaxCharset),
        n \in {None, Some(9)},
        c \in BOOLEAN, f \in BOOLEAN }

(***************************************************************************)
(* files.py: chain_charset_texts.  The content directory is the set of the *)
(* names of its files, and the text of a file is told by its name.         *)
(***************************************************************************)
AL == <<"A", "L">>

CY == <<"C", "Y">>

al == <<"a", "l">>

dot_txt == <<dot, "t", "x", "t">>

ASCII_txt == <<"A", "S", "C", "I", "I">> \o dot_txt

\* f'{cs_prefix}{level}.txt'
level_file(cs_prefix, level) == cs_prefix \o str(level) \o dot_txt

\* f.read() of a file of the content directory
read(text_file) == <<"<">> \o text_file \o <<">">>

\* the loop of the copy in src/proofing_helpers from a level on;
\* text_file_name is unbound before the first assignment
RECURSIVE older_chain_from(_, _, _, _, _)
older_chain_from(cs_prefix, content_dir, level, text_file_name, raw_content) ==
    IF level < 0
    THEN [raises |-> "none", value |-> raw_content]
    ELSE LET bound ==
                 IF level = 0
                 THEN IF cs_prefix = AL THEN Some(ASCII_txt)
                      ELSE text_file_name
                 ELSE Some(level_file(str_upper(cs_prefix), level))
         IN  IF bound = None
             THEN [raises |-> "UnboundLocalError", value |-> raw_content]
             ELSE older_chain_from(cs_prefix, content_dir, level - 1, bound,
                      IF bound[1] \in content_dir
                      THEN raw_content \o read(bound[1])
                      ELSE raw_content)

older_chain_charset_texts(cs_prefix, cs_level, content_dir) ==
    older_chain_from(cs_prefix, content_dir, cs_level, None, <<>>)

\* text_files of the copy of the package from a level on: what glob finds
RECURSIVE text_files_from(_, _, _)
text_files_from(cs_prefix, content_dir, level) ==
    IF level < 0
    THEN <<>>
    ELSE (IF level_file(cs_prefix, level) \in content_dir
          THEN <<level_file(cs_prefix, level)>>
          ELSE <<>>)
           \o text_files_from(cs_prefix, content_dir, level - 1)

RECURSIVE read_all(_)
read_all(text_files) ==
    IF text_files = <<>> THEN <<>>
    ELSE read(Head(text_files)) \o read_all(Tail(text_files))

chain_charset_texts(cs_prefix, cs_level, content_dir) ==
    LET text_files ==
            text_files_from(cs_prefix, content_dir, cs_level)
              \o (IF cs_prefix = AL THEN <<ASCII_txt>> ELSE <<>>)
    IN  IF cs_prefix = AL /\ ASCII_txt \notin content_dir
        THEN [raises |-> "FileNotFoundError", value |-> <<>>]
        ELSE [raises |-> "none", value |-> read_all(text_files)]

MaxLevel == 2

\* the files a content directory may hold
ContentFiles ==
    {level_file(p, l) : p \in {AL, CY}, l \in 0..1} \cup {ASCII_txt}

\* cs_prefix, cs_level and the content directory of the call
CharsetArgs ==
    { [cs_prefix |-> p, cs_level |-> l, content_dir |-> d] :
        p \in {AL, CY, al}, l \in 0..MaxLevel, d \in SUBSET ContentFiles }

(***************************************************************************)
(* glyphProof.py: the grid of a proof page.                                *)
(***************************************************************************)
\* math.ceil(math.sqrt(n)) for a number of fonts
ceil_sqrt(n) == CHOOSE k \in 0..n : k * k >= n /\ \A j \in 0..(k - 1) : j * j < n

\* columns of get_rows_columns; args.columns is None or a number, and
\* None and 0 are false
get_columns(num_fonts, args_columns) ==
    IF dict_get(args_columns, 0) # 0
    THEN args_columns[1]
    ELSE IF num_fonts <= 5 THEN num_fonts
    ELSE IF 6 <= num_fonts /\ num_fonts < 10 THEN num_fonts \div 2
    ELSE ceil_sqrt(num_fonts)

\* math.ceil(num_fonts) of an int is the int; // is the floor division
get_rows_columns(num_fonts, args_columns) ==
    LET columns == get_columns(num_fonts, args_columns)
    IN  IF columns = 0 THEN <<>>
        ELSE <<num_fonts \div columns, columns>>

get_rows_columns_raises(num_fonts, args_columns) ==
    IF get_columns(num_fonts, args_columns) = 0
    THEN "ZeroDivisionError"
    ELSE "none"

MaxFonts == 30

MaxColumns == 3

\* num_fonts and args.columns of the call
GridArgs ==
    { [num_fonts |-> n, columns |-> c] :
        n \in 0..MaxFonts,
        c \in {None} \cup {Some(k) : k \in 0..MaxColumns} }

(***************************************************************************)
(* The calls.  A behaviour is a caller that sorts a list, sorts the result *)
(* again, and then repeats its first call.                                 *)
(***************************************************************************)
VARIABLES
    arg_names,              \* ps_name_list of the latest call (Init: the input)
    arg_alternate_italics,  \* alternate_italics of all calls
    matches,            \* the dict of the latest call
    sorted_names,       \* the value the latest call returned
    calls,              \* argument, dict and result of every call so far
    pc,
    arg_ps_name,        \* ps_name of the latest call of get_score
    score,              \* what that call computed, a record of helper_table
    raised,             \* the exception of the latest call, or "none"
    arg_font_files,     \* font_files of the call of sort_fonts
    sorted_files,       \* the value that call returned
    arg_input_path,     \* input_path of the call of a function of files.py
    found_paths,        \* the value that call returned
    call_args,          \* the arguments of the call of another helper
    call_result,        \* the value that call returned
    remaining_charset,  \* the charset left to the loop of textProof
    full_content,       \* the paragraphs that loop collected
    character,          \* the character consume_charset drew last
    depth               \* the depth of the recursion of consume_charset

vars ==
    <<arg_names, arg_alternate_italics, matches, sorted_names, calls, pc,
      arg_ps_name, score, raised, arg_font_files, sorted_files,
      arg_input_path, found_paths, call_args, call_result,
      remaining_charset, full_content, character, depth>>

\* the variables of the other helpers
call_vars == <<call_args, call_result, remaining_charset, full_content,
               character, depth>>

\* the variables of the loop of make_formatted_content
text_vars == <<remaining_charset, full_content, character, depth>>

\* the variables of sort_ps_names
sort_vars == <<arg_names, matches, sorted_names, calls>>

\* the variables of sort_fonts and of files.py
file_vars == <<arg_font_files, sorted_files, arg_input_path, found_paths>>

\* the variables of get_score
score_vars == <<arg_ps_name, score>>

\* a caller with a list of names, a list of font files and a path
StartAll(names, files, paths, args) ==
    /\ arg_names \in names
    /\ arg_alternate_italics \in BOOLEAN
    /\ matches = [k \in {} |-> <<>>]
    /\ sorted_names = <<>>
    /\ calls = <<>>
    /\ pc = "start"
    /\ arg_ps_name = <<>>
    /\ score = <<>>
    /\ raised = "none"
    /\ arg_font_files \in files
    /\ sorted_files = <<>>
    /\ arg_input_path \in paths
    /\ found_paths = <<>>
    /\ call_args \in args
    /\ call_result = <<>>
    /\ remaining_charset = a_set({})
    /\ full_content = <<>>
    /\ character = None
    /\ depth = 0

StartWith(names, files, paths) == StartAll(names, files, paths, {<<>>})

Start(inputs) == StartWith(inputs, {<<>>}, {no_path})

Init == Start(SeqsUpTo(PsNames, MaxLen))

\* one call sort_ps_names(arg, arg_alternate_italics)
Call(arg) ==
    /\ matches' = fill_matches(arg, arg_alternate_italics, matches)
    /\ sorted_names' = chain_sorted(matches')
    /\ arg_names' = arg
    /\ calls' = Append(calls, [ps_name_list |-> arg,
                               matches |-> matches',
                               sorted_names |-> sorted_names'])
    /\ raised' = sort_ps_names_raises(arg, arg_alternate_italics)
    /\ UNCHANGED <<arg_alternate_italics, score_vars, file_vars, call_vars>>

SortPsNames ==
    /\ pc = "start"
    /\ Call(arg_names)
    /\ pc' = "sorted"

Resort ==
    /\ pc = "sorted"
    /\ Call(sorted_names)
    /\ pc' = "resorted"

SortAgain ==
    /\ pc = "resorted"
    /\ Call(calls[1].ps_name_list)
    /\ pc' = "again"

Next == SortPsNames \/ Resort \/ SortAgain

Spec == Init /\ [][Next]_vars

\* the known-order scenario of the weights
KnownOrderInput ==
    << MyFont \o Capitalized(weight_names[11]),
       MyFont \o Capitalized(weight_names[8]),
       MyFont \o Capitalized(weight_names[5]),
       MyFont_BoldItalic >>

KnownOrderSorted ==
    << MyFont \o Capitalized(weight_names[5]),
       MyFont \o Capitalized(weight_names[8]),
       MyFont \o Capitalized(weight_names[11]),
       MyFont_BoldItalic >>

\* the same caller, sorting names that differ in their weight name
InitWeights ==
    Start(SeqsUpTo(WeightPsNames, MaxLenWeights) \cup {KnownOrderInput})

SpecWeights == InitWeights /\ [][Next]_vars

\* one call get_score(ps_name, arg_alternate_italics) for a name of the
\* list, as line 205 makes it for every name
GetScore ==
    /\ pc = "start"
    /\ \E i \in 1..Len(arg_names) :
          /\ arg_ps_name' = arg_names[i]
          /\ score' = helpers(arg_names[i], arg_alternate_italics)
          /\ raised' = score'.raises
    /\ pc' = "scored"
    /\ UNCHANGED <<arg_alternate_italics, sort_vars, file_vars, call_vars>>

\* a caller that scores one name of its list or sorts the list
InitScores == Start(SeqsUpTo(ScorePsNames, MaxLenScores))

NextScores == GetScore \/ SortPsNames \/ Resort \/ SortAgain

SpecScores == InitScores /\ [][NextScores]_vars

\* one call sort_fonts(arg_font_files, arg_alternate_italics)
SortFonts ==
    /\ pc = "start"
    /\ sorted_files' = sort_fonts(arg_font_files, arg_alternate_italics)
    /\ pc' = "fonts_sorted"
    /\ UNCHANGED <<arg_alternate_italics, sort_vars, score_vars, raised,
                   arg_font_files, arg_input_path, found_paths, call_vars>>

\* a caller that sorts a list of font files
InitFonts == StartWith({<<>>}, SeqsUpTo(FontFiles, MaxFiles), {no_path})

NextFonts == SortFonts

SpecFonts == InitFonts /\ [][NextFonts]_vars

\* one call of a function of files.py with arg_input_path
FindPaths(paths) ==
    /\ found_paths' = paths
    /\ UNCHANGED <<arg_alternate_italics, sort_vars, score_vars, raised,
                   arg_font_files, sorted_files, arg_input_path, call_vars>>

GetFontPaths ==
    /\ pc = "start"
    /\ FindPaths(get_font_paths(arg_input_path))
    /\ pc' = "font_paths"

OlderGetFontPaths ==
    /\ pc = "start"
    /\ FindPaths(older_get_font_paths(arg_input_path))
    /\ pc' = "older_font_paths"

GetUfoPaths ==
    /\ pc = "start"
    /\ FindPaths(get_ufo_paths(arg_input_path, font_ufo))
    /\ pc' = "ufo_paths"

OlderGetUfoPaths ==
    /\ pc = "start"
    /\ FindPaths(older_get_ufo_paths(arg_input_path, font_ufo))
    /\ pc' = "older_ufo_paths"

\* a caller that looks for the fonts or for the UFOs of a path
InitPaths == StartWith({<<>>}, {<<>>}, InputPaths)

NextPaths ==
    \/ GetFontPaths
    \/ OlderGetFontPaths
    \/ GetUfoPaths
    \/ OlderGetUfoPaths

SpecPaths == InitPaths /\ [][NextPaths]_vars

\* a caller of one of the other helpers with its arguments
StartCall(args) == StartAll({<<>>}, {<<>>}, {no_path}, args)

\* the call returns a value or raises
Return(done, exception, value) ==
    /\ raised' = exception
    /\ call_result' = IF exception = "none" THEN value ELSE call_result
    /\ pc' = done
    /\ UNCHANGED <<arg_alternate_italics, sort_vars, score_vars, file_vars,
                   call_args, text_vars>>

My_PS == <<"M", "y", "-", "P", "S">>

My_Family == <<"M", "y", space, "F", "a", "m", "i", "l", "y">>

Bold_Italic == <<"B", "o", "l", "d", space, "I", "t", "a", "l", "i", "c">>

\* UFOs with and without the entries of fontinfo.plist, font files with
\* and without name table and name ID 6
InputFiles ==
    { [name |-> Master_ufo,
       fontinfo |-> [postscriptFontName |-> p, familyName |-> f,
                     styleName |-> s],
       name_table |-> None] :
        p \in {None, Some(<<>>), Some(My_PS)},
        f \in {None, Some(<<>>), Some(My_Family)},
        s \in {None, Some(<<>>), Some(Bold_Italic)} }
    \cup
    { [name |-> a_otf, fontinfo |-> no_fontinfo, name_table |-> t] :
        t \in {None, Some(None), Some(Some(<<>>)), Some(Some(Font_Bold))} }

GetPsName ==
    /\ pc = "start"
    /\ Return("ps_name", get_ps_name_raises(call_args),
              get_ps_name(call_args))

InitNames == StartCall(InputFiles)

NextNames == GetPsName

SpecNames == InitNames /\ [][NextNames]_vars

\* the depth at which Python gives up a recursion (1000 by default)
RecursionLimit == 3

\* make_formatted_content, full: the collection begins with the charset
\* as it was passed
BeginCollection ==
    /\ pc = "start"
    /\ call_args.full
    /\ remaining_charset' = a_str(call_args.charset)
    /\ full_content' = <<>>
    /\ pc' = "collect"
    /\ UNCHANGED <<arg_alternate_italics, sort_vars, score_vars, file_vars,
                   call_args, call_result, raised, character, depth>>

\* while len(remaining_charset) > acceptable_omissions
loop_guard ==
    len(remaining_charset)
        > acceptable_omissions(call_args.content_list, call_args.charset)

\* consume_charset draws a character that a paragraph has: one of these
\* paragraphs is picked and its characters leave the charset
ConsumeCharset ==
    /\ pc = "collect"
    /\ loop_guard
    /\ \E char \in set(remaining_charset) :
         /\ character' = char
         /\ \E i \in found_paragraphs(call_args.content_list, char) :
              LET paragraph_pick == call_args.content_list[i]
              IN  /\ remaining_charset'
                       = a_set(set(remaining_charset) \ Range(paragraph_pick))
                  /\ full_content' = Append(full_content, paragraph_pick)
    /\ depth' = 0
    /\ UNCHANGED <<arg_alternate_italics, sort_vars, score_vars, file_vars,
                   call_args, call_result, raised, pc>>

\* consume_charset draws a character that no paragraph has and calls
\* itself with the same arguments
ConsumeCharsetAgain ==
    /\ pc = "collect"
    /\ loop_guard
    /\ depth < RecursionLimit
    /\ \E char \in set(remaining_charset) :
         /\ found_paragraphs(call_args.content_list, char) = {}
         /\ character' = char
    /\ depth' = depth + 1
    /\ UNCHANGED <<arg_alternate_italics, sort_vars, score_vars, file_vars,
                   call_args, call_result, raised, pc, remaining_charset,
                   full_content>>

\* the recursion of consume_charset reaches the limit
ConsumeCharsetTooDeep ==
    /\ pc = "collect"
    /\ loop_guard
    /\ depth = RecursionLimit
    /\ \E char \in set(remaining_charset) :
         /\ found_paragraphs(call_args.content_list, char) = {}
         /\ character' = char
    /\ raised' = "RecursionError"
    /\ pc' = "raised"
    /\ UNCHANGED <<arg_alternate_italics, sort_vars, score_vars, file_vars,
                   call_args, call_result, remaining_charset, full_content,
                   depth>>

\* make_formatted_content, full, after the loop: capitalize is passed in
\* the place of len_limit
FormatFullContent ==
    /\ pc = "collect"
    /\ ~loop_guard
    /\ call_result' = format_content(full_content,
                                     Some(bool_int(call_args.capitalize)),
                                     FALSE)
    /\ pc' = "formatted"
    /\ UNCHANGED <<arg_alternate_italics, sort_vars, score_vars, file_vars,
                   call_args, raised, text_vars>>

\* make_formatted_content, not full and without char_filter
FormatContent ==
    /\ pc = "start"
    /\ ~call_args.full
    /\ call_result' = format_content(call_args.content_list,
                                     call_args.len_limit,
                                     call_args.capitalize)
    /\ pc' = "formatted"
    /\ UNCHANGED <<arg_alternate_italics, sort_vars, score_vars, file_vars,
                   call_args, raised, text_vars>>

InitText == StartCall(TextArgs)

NextText ==
    \/ BeginCollection
    \/ ConsumeCharset
    \/ ConsumeCharsetAgain
    \/ ConsumeCharsetTooDeep
    \/ FormatFullContent
    \/ FormatContent

SpecText == InitText /\ [][NextText]_vars

\* chain_charset_texts of src/proofing_helpers/files.py
OlderChainCharsetTexts ==
    /\ pc = "start"
    /\ LET result == older_chain_charset_texts(call_args.cs_prefix,
                        call_args.cs_level, call_args.content_dir)
       IN  Return("older_charset_texts", result.raises, result.value)

\* chain_charset_texts of the package
ChainCharsetTexts ==
    /\ pc = "start"
    /\ LET result == chain_charset_texts(call_args.cs_prefix,
                        call_args.cs_level, call_args.content_dir)
       IN  Return("charset_texts", result.raises, result.value)

InitCharset == StartCall(CharsetArgs)

NextCharset == OlderChainCharsetTexts \/ ChainCharsetTexts

SpecCharset == InitCharset /\ [][NextCharset]_vars

GetNameOverlap ==
    /\ pc = "start"
    /\ Return("name_overlap", get_name_overlap_raises(call_args),
              get_name_overlap(call_args))

InitOverlap == StartCall(SeqsUpTo(OverlapNames, MaxNames))

NextOverlap == GetNameOverlap

SpecOverlap == InitOverlap /\ [][NextOverlap]_vars

\* the three calls of get_attr_score that get_score makes (lines 174-176)
Vocabularies ==
    { [attr_list |-> opsz_names, fallback |-> <<normal>>, is_list |-> TRUE],
      [attr_list |-> width_names, fallback |-> <<normal>>, is_list |-> TRUE],
      [attr_list |-> weight_names, fallback |-> regular, is_list |-> FALSE] }

\* the spellings of a vocabulary
tokens(vocabulary) ==
    IF vocabulary.is_list THEN Range(chain(vocabulary.attr_list))
    ELSE Range(vocabulary.attr_list)

\* a token as it is listed, in capitals and with a capital first letter
TokenCases(token) ==
    { token, str_upper(token),
      IF Head(token) \in Range(Lower) THEN Capitalized(token) ELSE token }

\* a name that is a token of some vocabulary, scored in any vocabulary
TokenArgs ==
    { [ps_name |-> n, vocabulary |-> v] :
        n \in UNION {TokenCases(t) : t \in UNION {tokens(v) : v \in Vocabularies}},
        v \in Vocabularies }

GetAttrScore ==
    /\ pc = "start"
    /\ LET v == call_args.vocabulary
       IN  Return("attr_score",
                  get_attr_score_raises(call_args.ps_name, v.attr_list,
                                        v.fallback, v.is_list),
                  get_attr_score(call_args.ps_name, v.attr_list, v.fallback,
                                 v.is_list))

InitTokens == StartCall(TokenArgs)

NextTokens == GetAttrScore

SpecTokens == InitTokens /\ [][NextTokens]_vars

GetRowsColumns ==
    /\ pc = "start"
    /\ Return("rows_columns",
              get_rows_columns_raises(call_args.num_fonts, call_args.columns),
              get_rows_columns(call_args.num_fonts, call_args.columns))

InitGrid == StartCall(GridArgs)

NextGrid == GetRowsColumns

SpecGrid == InitGrid /\ [][NextGrid]_vars

(***************************************************************************)
(* Vocabulary of the properties.                                           *)
(***************************************************************************)
Called == pc # "start"

Count(list, x) == Cardinality({i \in 1..Len(list) : list[i] = x})

\* the scores of a name under the flag of the behaviour
ScoreOf(n) == scored(n, arg_alternate_italics).score

AxesOf(n) == SubSeq(ScoreOf(n), 1, 4)

IsItalic(n) == ScoreOf(n)[5] = 1

\* the names without any optical-size, width, weight or italic token
Outliers ==
    UNION {IF test_outlier(n) THEN {n} ELSE {} : n \in AllPsNames}

\* t < u for two score tuples, compared component by component
RECURSIVE TupleLess(_, _)
TupleLess(t, u) ==
    IF t = <<>> \/ u = <<>> THEN FALSE
    ELSE IF Head(t) # Head(u) THEN Head(t) < Head(u)
    ELSE TupleLess(Tail(t), Tail(u))

\* C1: the list sort_ps_names returns is a permutation of its argument: it
\* has the same length and every name occurs in it as often as in the
\* argument
C1_Permutation ==
    Called =>
        /\ Len(sorted_names) = Len(arg_names)
        /\ \A n \in AllPsNames :
                Count(sorted_names, n) = Count(arg_names, n)

\* a list with a repeated name has been sorted
C1_Witness ==
    /\ pc = "sorted"
    /\ Len(arg_names) = 3
    /\ arg_names[1] = arg_names[3]
    /\ arg_names[1] # arg_names[2]
    /\ sorted_names # arg_names

\* C2: sorting the result of sort_ps_names again, with the same flag, gives
\* that result
C2_Idempotent ==
    pc = "resorted" =>
        /\ calls[2].ps_name_list = calls[1].sorted_names
        /\ calls[2].sorted_names = calls[1].sorted_names

\* the result of a sort that changed the order of two tied names has been
\* sorted again
C2_Witness ==
    /\ pc = "resorted"
    /\ calls[1].ps_name_list = <<Font_Regular, Font_Bold, Acumin_Regular>>
    /\ calls[1].sorted_names = <<Acumin_Regular, Font_Regular, Font_Bold>>

\* C3: a repeated call returns what the first call returned, whatever call
\* was made in between, and every call files a name under the same key
C3_Deterministic ==
    /\ pc = "again" =>
        /\ calls[3].ps_name_list = calls[1].ps_name_list
        /\ calls[3].sorted_names = calls[1].sorted_names
        /\ calls[3].matches = calls[1].matches
    /\ \A c1, c2 \in 1..Len(calls) :
        \A k1 \in DOMAIN calls[c1].matches, k2 \in DOMAIN calls[c2].matches :
            (\E i \in 1..Len(calls[c1].matches[k1]) :
                \E j \in 1..Len(calls[c2].matches[k2]) :
                    calls[c1].matches[k1][i] = calls[c2].matches[k2][j])
                => k1 = k2

\* the first call has been repeated after a call with another argument
C3_Witness ==
    /\ pc = "again"
    /\ Len(calls[1].ps_name_list) = 3
    /\ calls[2].ps_name_list # calls[1].ps_name_list

\* s ends with w, letter case ignored
EndsWith(s, w) ==
    /\ Len(w) <= Len(s)
    /\ \A k \in 1..Len(w) : lower[s[Len(s) - Len(w) + k]] = lower[w[k]]

\* n is a family prefix without any token followed by the k-th weight name
\* (the longest weight name n ends with), and n contains no optical-size,
\* width or italic token
IsPlainWeightName(n, k) ==
    LET w == weight_names[k]
        others == chain(opsz_names) \o chain(width_names) \o italic_attrs
    IN  /\ EndsWith(n, w)
        /\ \A l \in 1..Len(weight_names) :
                EndsWith(n, weight_names[l]) => Len(weight_names[l]) <= Len(w)
        /\ test_outlier(SubSeq(n, 1, Len(n) - Len(w)))
        /\ \A i \in 1..Len(others) : ~re_match_attr(others[i], n)

\* the pairs <<n, k>> of such a name and the position of its weight name
PlainWeightNames ==
    UNION { IF IsPlainWeightName(n, k) THEN {<<n, k>>} ELSE {} :
                n \in AllPsNames, k \in 1..Len(weight_names) }

\* C4: names made of a family prefix and one weight name are sorted by the
\* position of the weight name in weight_names, for both flag values, and
\* the known-order scenario gives Light, Regular, Bold, BoldItalic
C4_WeightOrder ==
    Called =>
        /\ \A i, j \in 1..Len(sorted_names) :
                \A p, q \in PlainWeightNames :
                    (p[1] = sorted_names[i] /\ q[1] = sorted_names[j]
                        /\ p[2] < q[2]) => i < j
        /\ (calls[1].ps_name_list = KnownOrderInput /\ ~arg_alternate_italics)
                => calls[1].sorted_names = KnownOrderSorted

\* the known-order scenario has been sorted
C4_Witness ==
    /\ pc = "sorted"
    /\ ~arg_alternate_italics
    /\ arg_names = KnownOrderInput
    /\ \A i \in 1..3 : \E p \in PlainWeightNames : p[1] = arg_names[i]

C6_ItalicNextToRoman ==
    (Called /\ arg_alternate_italics) =>
        \A i, j \in 1..Len(sorted_names) :
            (/\ AxesOf(sorted_names[i]) = AxesOf(sorted_names[j])
             /\ ~IsItalic(sorted_names[i])
             /\ IsItalic(sorted_names[j]))
                => /\ i < j
                   /\ \A k \in i..j :
                        AxesOf(sorted_names[k]) = AxesOf(sorted_names[i])

\* C7 as stated: with alternation two names with the same optical-size,
\* width, weight and index scores are in lexicographic order of the names
C7_ItalicFlagDoesNotOrder ==
    (Called /\ arg_alternate_italics) =>
        \A i, j \in 1..Len(sorted_names) :
            (i < j /\ AxesOf(sorted_names[i]) = AxesOf(sorted_names[j]))
                => ~StrLess(sorted_names[j], sorted_names[i])

\* C7 as amended: with alternation two names with the same optical-size,
\* width, weight and index scores are in lexicographic order when their
\* italic flags are equal, and the one that is not italic is first when
\* they are not
C7_ItalicFlagOrdersTies ==
    (Called /\ arg_alternate_italics) =>
        \A i, j \in 1..Len(sorted_names) :
            (i < j /\ AxesOf(sorted_names[i]) = AxesOf(sorted_names[j]))
                => IF IsItalic(sorted_names[i]) = IsItalic(sorted_names[j])
                   THEN ~StrLess(sorted_names[j], sorted_names[i])
                   ELSE ~IsItalic(sorted_names[i])

\* two tied romans in lexicographic order, followed by their italic, whose
\* name is the smallest of the three
C7_Witness ==
    /\ pc = "sorted"
    /\ arg_alternate_italics
    /\ arg_names = <<Font_Italic, Font_Regular, Acumin_Regular>>
    /\ sorted_names = <<Acumin_Regular, Font_Regular, Font_Italic>>

C9_KeyOrderIsTupleOrder ==
    Called =>
        \A k1, k2 \in DOMAIN matches :
            \A i \in 1..Len(matches[k1]), j \in 1..Len(matches[k2]) :
                LET t1 == ScoreOf(matches[k1][i])
                    t2 == ScoreOf(matches[k2][j])
                IN  /\ IntLess(k1, k2) <=> TupleLess(t1, t2)
                    /\ k1 = k2 => t1 = t2

\* s without the digits at its end
RECURSIVE StripDigits(_)
StripDigits(s) ==
    IF s # <<>> /\ s[Len(s)] \in DigitChars
    THEN StripDigits(SubSeq(s, 1, Len(s) - 1))
    ELSE s

\* the names B followed by a number i >= 1, with B and i
NumberedNames ==
    { [name |-> n, base |-> StripDigits(n),
       i |-> int(SubSeq(n, Len(StripDigits(n)) + 1, Len(n)))] :
        n \in { m \in AllPsNames :
                    /\ StripDigits(m) # <<>>
                    /\ StripDigits(m) # m
                    /\ m[Len(StripDigits(m)) + 1] # "0" } }

\* C10: a name B that does not end in a digit is placed before B followed
\* by i, and B followed by i before B followed by j, for 1 <= i < j
C10_IndexOrder ==
    Called =>
        \A p, q \in 1..Len(sorted_names) :
            \A r \in NumberedNames :
                /\ (sorted_names[p] = r.base /\ sorted_names[q] = r.name)
                        => p < q
                /\ \A s \in NumberedNames :
                        (/\ sorted_names[p] = r.name
                         /\ sorted_names[q] = s.name
                         /\ r.base = s.base /\ r.i < s.i) => p < q

\* a base name and two of its numbered names, one with three digits, have
\* been sorted
C10_Witness ==
    /\ pc = "sorted"
    /\ arg_names = <<Font_Regular100, Font_Regular2, Font_Regular>>
    /\ sorted_names = <<Font_Regular, Font_Regular2, Font_Regular100>>

(***************************************************************************)
(* Properties of the score of one name.                                    *)
(***************************************************************************)
Scored == pc = "scored"

\* the maximal run of digits at the end of a name
TrailingDigits(s) == SubSeq(s, Len(StripDigits(s)) + 1, Len(s))

\* a token occurs in a name at position i, letter case ignored
OccursAt(token, s, i) ==
    /\ i + Len(token) - 1 <= Len(s)
    /\ \A k \in 1..Len(token) : lower[s[i + k - 1]] = lower[token[k]]

Occurs(token, s) == \E i \in 1..Len(s) : OccursAt(token, s, i)

\* C11: get_index_score returns the integer value of the maximal run of
\* digits at the end of the name, and 0 when the name does not end in a
\* digit
C11_IndexIsTrailingDigitRun ==
    Scored => score.index_score = int(TrailingDigits(arg_ps_name))

\* the slots of the weights, written as the slots of the other axes
weight_slots == [j \in 1..Len(weight_names) |-> <<weight_names[j]>>]

\* the tokens of an axis that occur in a name, each with its slot
MatchedTokens(n, slots) ==
    UNION { UNION { IF Occurs(slots[j][s], n)
                    THEN {[slot |-> j - 1, token |-> slots[j][s]]}
                    ELSE {} : s \in 1..Len(slots[j]) } :
            j \in 1..Len(slots) }

\* when tokens of several slots occur, the result is a slot of which a
\* token of the greatest length occurs
LongestTokenWins(n, slots, result) ==
    LET M == MatchedTokens(n, slots)
    IN  Cardinality({m.slot : m \in M}) >= 2 =>
            \E m \in M :
                /\ m.slot = result
                /\ \A k \in M : Len(k.token) <= Len(m.token)

\* C12: on each axis, when tokens of several slots occur in the name,
\* get_attr_score returns the slot of the longest matched token text
C12_LongestTokenWins ==
    Scored =>
        /\ LongestTokenWins(arg_ps_name, opsz_names, score.opsz_score)
        /\ LongestTokenWins(arg_ps_name, width_names, score.width_score)
        /\ LongestTokenWins(arg_ps_name, weight_slots, score.weight_score)

ItalicTokens ==
    { <<"i", "t", "a", "l", "i", "c">>, <<"i", "t", "a", "l">>, <<"i", "t">> }

IsLetter(c) == c \in UpperChars \cup Range(Lower)

\* a token occurs as a discrete unit: it begins a word (at the start of the
\* name, after a character that is not a letter, or with a capital) and it
\* ends one (at the end of the name or before a character that is not a
\* small letter)
OccursAsUnit(token, s) ==
    \E i \in 1..Len(s) :
        /\ OccursAt(token, s, i)
        /\ \/ i = 1
           \/ ~IsLetter(s[i - 1])
           \/ s[i] \in UpperChars
        /\ \/ i + Len(token) - 1 = Len(s)
           \/ s[i + Len(token)] \notin Range(Lower)

\* C13: get_italic_score reports 1 only when italic, ital or it occurs in
\* the name as a discrete unit; the letters it inside another word score 0
C13_ItalicOnlyAsUnit ==
    Scored =>
        (score.it_score = 1 =>
            \E t \in ItalicTokens : OccursAsUnit(t, arg_ps_name))

\* the tokens of the three axes and of the italic
AllTokens ==
    Range(chain(opsz_names)) \cup Range(chain(width_names))
        \cup Range(weight_names) \cup ItalicTokens

HasToken(n) == \E t \in AllTokens : Occurs(t, n)

\* the key begins with the sentinel for optical size, width and weight
IsSentinel(style_hash) ==
    /\ Len(style_hash) >= 9
    /\ SubSeq(style_hash, 1, 9) =
            format_0d(OUTLIER_SCORE, 3) \o format_0d(OUTLIER_SCORE, 3)
                \o format_0d(OUTLIER_SCORE, 3)

\* C14: get_score gives the sentinel 999 to optical size, width and weight
\* exactly when the name contains no token of the three axes and no italic
\* token, so that a name with a default token (regular, normal) or with an
\* italic token only is not given the sentinel, for either flag value
C14_SentinelIffNoToken ==
    Scored => (IsSentinel(score.style_hash) <=> ~HasToken(arg_ps_name))

\* a name with an italic token only has been scored with alternating
\* italics: its three axis scores are the defaults and it has no sentinel
C14_Witness ==
    /\ Scored
    /\ arg_ps_name = Font_It
    /\ arg_alternate_italics
    /\ <<score.opsz_score, score.width_score, score.weight_score>>
            = DEFAULT_SCORE
    /\ ~IsSentinel(score.style_hash)

(***************************************************************************)
(* Properties of the order of the groups and of the width names.           *)
(***************************************************************************)
\* the key under which sort_ps_names files a name (line 206), which the
\* code calls its score (line 211)
KeyOf(n) == big_int(scored(n, arg_alternate_italics).style_hash)

ExtraWideStyleNames ==
    [i \in 1..Len(WidthStyleNames) |->
        IF i = Len(WidthStyleNames) THEN ExtraWide ELSE WidthStyleNames[i]]

\* the names of style_names come in this order
InWidthOrder(style_names) ==
    \A p, q \in 1..Len(sorted_names) :
        \A i, j \in 1..Len(style_names) :
            (/\ sorted_names[p] = FPrefix \o style_names[i]
             /\ sorted_names[q] = FPrefix \o style_names[j]
             /\ i < j) => p < q

\* C16 as stated: names made of a prefix without token and a width name
\* come in the order ExtraCondensed, Narrow, Condensed, SemiCondensed,
\* Normal, SemiExtended, Extended, Expanded, Wide, ExtraWide
C16_WidthOrderExtraWide == Called => InWidthOrder(ExtraWideStyleNames)

\* C16, amended: they come in the order ExtraCondensed, Narrow, Condensed,
\* SemiCondensed, Normal, SemiExtended, Extended, Expanded, Wide, XWide
C16_WidthOrderXWide == Called => InWidthOrder(WidthStyleNames)

\* two names whose width order is not their lexicographic order have been
\* sorted
C16_Witness ==
    /\ pc = "sorted"
    /\ calls[1].ps_name_list =
            <<FPrefix \o WidthStyleNames[7], FPrefix \o WidthStyleNames[6]>>
    /\ sorted_names =
            <<FPrefix \o WidthStyleNames[6], FPrefix \o WidthStyleNames[7]>>

\* C17: get_score and sort_ps_names never raise, and get_score returns a
\* key made of digits, for the empty name, names without token, names made
\* of digits and names with tokens of several slots
C17_NeverRaises ==
    /\ raised = "none"
    /\ Scored =>
        /\ Len(score.style_hash) >= 12
        /\ Range(score.style_hash) \subseteq DigitChars

\* a list with the empty name and a name made of digits has been sorted
C17_Witness ==
    /\ pc = "sorted"
    /\ calls[1].ps_name_list = <<Digits123, Empty>>
    /\ Len(sorted_names) = 2
    /\ raised = "none"


(***************************************************************************)
(* Properties of sort_fonts and of the search for font files.              *)
(***************************************************************************)
\* C18: sort_fonts returns a permutation of the list of font files, no
\* file dropped or repeated also when files share a PostScript name, and a
\* list of 0 or 1 files unchanged
C18_FilesPermutation ==
    pc = "fonts_sorted" =>
        /\ Len(sorted_files) = Len(arg_font_files)
        /\ \A f \in FontFiles :
                Count(sorted_files, f) = Count(arg_font_files, f)
        /\ Len(arg_font_files) <= 1 => sorted_files = arg_font_files

\* two files with one name, given around a file that sorts before them,
\* have been sorted
C18_Witness ==
    /\ pc = "fonts_sorted"
    /\ arg_font_files =
            <<file_1, file_3, file_2>>
    /\ sorted_files = <<file_3, file_1, file_2>>

\* a file is an OTF, a TTF: by its suffix, letter case ignored
IsOtf(name) == str_lower(suffix(name)) = dot_otf

IsTtf(name) == str_lower(suffix(name)) = dot_ttf

\* C19: get_font_paths returns only OTF files for a directory with an OTF
\* file, TTF files only for a directory without OTF file, and for a single
\* file the file when it is an OTF or a TTF and the empty list otherwise
C19_OtfPreferred ==
    pc \in {"font_paths", "older_font_paths"} =>
        IF arg_input_path.is_dir
        THEN /\ (\E i \in 1..Len(arg_input_path.entries) :
                    IsOtf(arg_input_path.entries[i]))
                    => /\ found_paths # <<>>
                       /\ \A k \in 1..Len(found_paths) : IsOtf(found_paths[k])
             /\ (\E k \in 1..Len(found_paths) : IsTtf(found_paths[k]))
                    => \A i \in 1..Len(arg_input_path.entries) :
                            ~IsOtf(arg_input_path.entries[i])
        ELSE found_paths =
                IF IsOtf(arg_input_path.name) \/ IsTtf(arg_input_path.name)
                THEN <<arg_input_path.name>>
                ELSE <<>>

\* C20: for a directory, get_ufo_paths returns no path whose name is the
\* filter argument font.ufo; a path that is a UFO itself is returned as
\* the only element
C20_FontUfoFilteredOut ==
    pc \in {"ufo_paths", "older_ufo_paths"} =>
        (arg_input_path.is_dir =>
            IF str_lower(suffix(arg_input_path.name)) = dot_ufo
            THEN found_paths = <<arg_input_path.name>>
            ELSE \A k \in 1..Len(found_paths) : found_paths[k] # font_ufo)


(***************************************************************************)
(* Properties of get_ps_name.                                              *)
(***************************************************************************)
Returned(done) == pc = done /\ raised = "none"

RECURSIVE WithoutSpaces(_)
WithoutSpaces(s) ==
    IF s = <<>> THEN <<>>
    ELSE IF Head(s) = space THEN WithoutSpaces(Tail(s))
    ELSE <<Head(s)>> \o WithoutSpaces(Tail(s))

IsUfo(f) == suffix(f.name) = dot_ufo

\* the UFO has no postscriptFontName, or an empty one
WithoutPostscriptFontName(f) ==
    IsUfo(f) /\ f.fontinfo.postscriptFontName \in {None, Some(<<>>)}

\* the font file has a name table without a PostScript name (name ID 6), or
\* with an empty one
WithoutNameID6(f) ==
    ~IsUfo(f) /\ f.name_table \in {Some(None), Some(Some(<<>>))}

\* familyName-styleName with the spaces removed; a name that is not in
\* fontinfo.plist is 'Family Name', 'Style Name'
Synthesized(f) ==
    WithoutSpaces(dict_get(f.fontinfo.familyName, Family_Name))
        \o <<"-">>
        \o WithoutSpaces(dict_get(f.fontinfo.styleName, Style_Name))

\* Path.stem: the name without its suffix
stem(name) == SubSeq(name, 1, Len(name) - Len(suffix(name)))

\* C21 as stated: a UFO without postscriptFontName yields
\* familyName-styleName with the spaces removed, a font file without name
\* ID 6 yields the base name of the file, and the name is never empty
C21_NeverEmpty ==
    Returned("ps_name") =>
        /\ WithoutPostscriptFontName(call_args)
                => call_result = Synthesized(call_args)
        /\ WithoutNameID6(call_args) => call_result = stem(call_args.name)
        /\ call_result # <<>>

\* C21, amended: a UFO without postscriptFontName yields
\* familyName-styleName with the spaces removed, so the name of a UFO is
\* never empty; a font file without name ID 6 yields the empty str
C21_UfoNeverEmpty ==
    Returned("ps_name") =>
        /\ WithoutPostscriptFontName(call_args)
                => call_result = Synthesized(call_args)
        /\ IsUfo(call_args) => call_result # <<>>
        /\ WithoutNameID6(call_args) => call_result = <<>>

\* the name of a UFO with a family and a style name of two words each and
\* without postscriptFontName has been asked for
C21_Witness ==
    /\ Returned("ps_name")
    /\ call_args.fontinfo =
            [postscriptFontName |-> None, familyName |-> Some(My_Family),
             styleName |-> Some(Bold_Italic)]
    /\ IsUfo(call_args)
    /\ call_result =
            <<"M", "y", "F", "a", "m", "i", "l", "y", "-",
              "B", "o", "l", "d", "I", "t", "a", "l", "i", "c">>


(***************************************************************************)
(* sort_fonts and sort_ps_names.                                           *)
(***************************************************************************)
\* the names of a list of files
NamesOf(files) == [i \in 1..Len(files) |-> get_ps_name(files[i])]

\* the files of a list that have the name n, in the order of the list
FilesNamed(files, n) ==
    LET named(f) == get_ps_name(f) = n
    IN  SelectSeq(files, named)

\* the elements of a list in the order of their first occurrence
RECURSIVE Distinct(_)
Distinct(s) ==
    IF s = <<>> THEN <<>>
    ELSE LET rest == Distinct(SubSeq(s, 1, Len(s) - 1))
         IN  IF \E i \in 1..Len(rest) : rest[i] = s[Len(s)]
             THEN rest
             ELSE Append(rest, s[Len(s)])

NoMatches == [k \in {} |-> <<>>]

\* C22: for a list of more than one file, the names of the sorted files
\* are sort_ps_names of the names of the files, the groups of files come in
\* the order sort_ps_names gives for the distinct names, and the files of
\* one name are adjacent and keep their input order
C22_RefinesSortPsNames ==
    (pc = "fonts_sorted" /\ Len(arg_font_files) > 1) =>
        /\ NamesOf(sorted_files) =
                sort_ps_names(NamesOf(arg_font_files), arg_alternate_italics,
                              NoMatches)
        /\ Distinct(NamesOf(sorted_files)) =
                sort_ps_names(Distinct(NamesOf(arg_font_files)),
                              arg_alternate_italics, NoMatches)
        /\ \A p, q \in 1..Len(sorted_files) :
                (/\ p < q
                 /\ get_ps_name(sorted_files[p]) = get_ps_name(sorted_files[q]))
                    => \A k \in p..q :
                            get_ps_name(sorted_files[k])
                                = get_ps_name(sorted_files[p])
        /\ \A f \in FontFiles :
                FilesNamed(sorted_files, get_ps_name(f))
                    = FilesNamed(arg_font_files, get_ps_name(f))

\* two files with one name, the later one given first, around a file of a
\* name with a smaller score, have been sorted
C22_Witness ==
    /\ pc = "fonts_sorted"
    /\ arg_font_files = <<file_2, file_6, file_1>>
    /\ sorted_files = <<file_6, file_2, file_1>>

(***************************************************************************)
(* The content of a text proof in full mode.                               *)
(***************************************************************************)
\* the characters of the returned content, whatever their case
OutputChars ==
    UNION {Range(str_lower(call_result[k].text)) : k \in 1..Len(call_result)}

\* the characters of the charset that a source paragraph has
CoveredChars ==
    Range(call_args.charset) \cap joined_set(call_args.content_list)

\* C23: in full mode the returned content holds every paragraph that was
\* collected, so that every character of the charset that occurs in a
\* source paragraph occurs in the output, whatever capitalize is
C23_FullCoversCharset ==
    (Returned("formatted") /\ call_args.full)
        => /\ CoveredChars \subseteq OutputChars
           /\ \A i \in 1..Len(full_content) :
                Range(str_lower(full_content[i])) \ {space} \subseteq OutputChars

\* C24: the collection loop terminates: a call of consume_charset that
\* returns takes a character from the remaining charset, and the loop is
\* left as soon as the remaining characters occur in no source paragraph
C24_LoopExits ==
    /\ [][ConsumeCharset =>
            /\ set(remaining_charset') \subseteq set(remaining_charset)
            /\ set(remaining_charset') # set(remaining_charset)]_vars
    /\ [](( /\ pc = "collect"
            /\ set(remaining_charset)
                 \cap joined_set(call_args.content_list) = {})
          => ~loop_guard)

(***************************************************************************)
(* The texts of a charset.                                                 *)
(***************************************************************************)
\* the texts of the files of the levels from a level down to 1 that the
\* content directory holds, each once
RECURSIVE LevelTexts(_, _, _)
LevelTexts(prefix, content_dir, level) ==
    IF level < 1 THEN <<>>
    ELSE (IF level_file(prefix, level) \in content_dir
          THEN read(level_file(prefix, level)) ELSE <<>>)
           \o LevelTexts(prefix, content_dir, level - 1)

\* C25: chain_charset_texts of src/proofing_helpers returns the texts of
\* the level files from cs_level down to 1, each existing file once,
\* followed by ASCII.txt only for the prefix AL; for another prefix nothing
\* is read for level 0 and no error is raised
C25_EachLevelOnce ==
    pc = "older_charset_texts"
        => /\ raised = "none"
           /\ call_result
                = LevelTexts(str_upper(call_args.cs_prefix),
                             call_args.content_dir, call_args.cs_level)
                    \o (IF call_args.cs_prefix = AL
                           /\ ASCII_txt \in call_args.content_dir
                        THEN read(ASCII_txt) ELSE <<>>)

(***************************************************************************)
(* The shared part of the names.                                           *)
(***************************************************************************)
IsPrefix(p, s) == Len(p) <= Len(s) /\ SubSeq(s, 1, Len(p)) = p

\* the longest str that every name of the list begins with
CommonPrefix(list) ==
    LET common == {k \in 0..Len(list[1]) :
                      \A j \in 1..Len(list) :
                          IsPrefix(SubSeq(list[1], 1, k), list[j])}
    IN  SubSeq(list[1], 1, CHOOSE k \in common : \A m \in common : m <= k)

\* C26: for a list of names that is not empty get_name_overlap returns
\* the longest common prefix of the names without its leading and
\* trailing dashes, also when a name is a prefix of the others or is
\* empty, and whatever the order of the list
C26_LongestCommonPrefix ==
    (pc = "name_overlap" /\ call_args # <<>>)
        => /\ raised = "none"
           /\ call_result = strip_dashes(CommonPrefix(call_args))

(***************************************************************************)
(* The order of the argument.                                              *)
(***************************************************************************)
\* the lists with the names of a list in any order
Reorderings(list) ==
    LET positions == 1..Len(list)
        onto == UNION {IF Range(p) = positions THEN {p} ELSE {} :
                          p \in [positions -> positions]}
    IN  {[i \in positions |-> list[p[i]]] : p \in onto}

\* C27: the result of sort_ps_names depends on the names of the list and
\* on how often each occurs, not on their order: every reordering of the
\* list is sorted to the same result, for either flag
C27_OrderIndependent ==
    pc = "sorted" =>
        \A reordered \in Reorderings(arg_names) :
            sort_ps_names(reordered, arg_alternate_italics, matches)
                = sorted_names

\* a list of three names, two of them with one key, has been sorted to
\* another order
C27_Witness ==
    /\ pc = "sorted"
    /\ arg_names = <<Font_Display, Font_Regular, Acumin_Regular>>
    /\ sorted_names = <<Acumin_Regular, Font_Regular, Font_Display>>
    /\ Cardinality(Reorderings(arg_names)) = 6

(***************************************************************************)
(* The layout of the key.                                                  *)
(***************************************************************************)
\* the five scores of a name, as get_score hands them to make_hash
ScoreTuple(n) == scored(n, arg_alternate_italics).score

\* the names with an index below 100
SmallIndexNames == {n \in AllPsNames : ScoreTuple(n)[4] < 100}

\* C28: for a name with an index below 100 get_score returns a key of
\* exactly 12 digits, and the keys of two such names are in the order, as
\* integers, of their tuples of optical size, width, weight, index and
\* italic
C28_KeyOrderIsTupleOrder ==
    (Scored /\ arg_ps_name \in SmallIndexNames)
        => /\ Len(score.style_hash) = 12
           /\ Range(score.style_hash) \subseteq DigitChars
           /\ \A n \in SmallIndexNames :
                /\ IntLess(big_int(score.style_hash), KeyOf(n))
                     <=> TupleLess(ScoreTuple(arg_ps_name), ScoreTuple(n))
                /\ IntLess(KeyOf(n), big_int(score.style_hash))
                     <=> TupleLess(ScoreTuple(n), ScoreTuple(arg_ps_name))

\* a name with the index 7 has been scored; its tuple differs from the
\* tuple of the name without index in the index only, and an outlier has
\* a greater tuple
C28_Witness ==
    /\ Scored
    /\ arg_ps_name = Font_Regular007
    /\ ScoreTuple(Font_Regular007)[4] = 7
    /\ TupleLess(ScoreTuple(Font_Regular), ScoreTuple(Font_Regular007))
    /\ TupleLess(ScoreTuple(Font_Regular007), ScoreTuple(Acumin_Whatever))
    /\ {Font_Regular, Acumin_Whatever} \subseteq SmallIndexNames

(***************************************************************************)
(* A name that is one token.                                               *)
(***************************************************************************)
\* the slots of a vocabulary that list a token, as indices from 0
SlotsOf(vocabulary, token) ==
    {j - 1 : j \in {i \in 1..Len(vocabulary.attr_list) :
                       IF vocabulary.is_list
                       THEN token \in Range(vocabulary.attr_list[i])
                       ELSE token = vocabulary.attr_list[i]}}

ultralight == weight_names[2]

\* C29: a name that consists of one token of a vocabulary, in any letter
\* case, gets the index of the slot that lists the token, also when a
\* token of another slot occurs inside it
C29_TokenAloneScoresItsSlot ==
    pc = "attr_score" =>
        LET v == call_args.vocabulary
            token == str_lower(call_args.ps_name)
        IN  token \in tokens(v)
                => /\ raised = "none"
                   /\ SlotsOf(v, token) = {call_result}

\* the name ULTRALIGHT, in which the tokens ultra and light of other slots
\* occur, has been scored for its weight
C29_Witness ==
    /\ pc = "attr_score"
    /\ call_args.ps_name = str_upper(ultralight)
    /\ call_args.vocabulary.attr_list = weight_names
    /\ re_match_attr(weight_names[5], call_args.ps_name)
    /\ re_match_attr(weight_names[15], call_args.ps_name)
    /\ call_result = 1

(***************************************************************************)
(* The grid of a proof page.                                               *)
(***************************************************************************)
\* C30: without an override of the columns and for at least one font the
\* grid of get_rows_columns has room for every font: rows and columns are
\* at least 1 and rows * columns is at least the number of fonts
C30_RoomForEveryFont ==
    ( /\ pc = "rows_columns"
      /\ call_args.num_fonts >= 1
      /\ call_args.columns = None )
        => /\ raised = "none"
           /\ call_result[1] >= 1
           /\ call_result[2] >= 1
           /\ call_result[1] * call_result[2] >= call_args.num_fonts

====
